---- MODULE Spec2Model ----
(***************************************************************************)
(* The duplex audio session manager of App (src/unnamed/part_001).         *)
(*                                                                         *)
(* React state is modelled by the variables status, isHandsFree, config    *)
(* and currentStatus, the refs by the variables ending in Ref.  Every      *)
(* render of App is a scope: the values of the state the closures created  *)
(* in that render read, and, for each useCallback, the scope whose         *)
(* function instance that render sees.  A callback is always run with the  *)
(* scope that created it, so a handler kept by a long-lived object (a      *)
(* SpeechRecognition, a live session, a timer) reads the state of the      *)
(* render that created it, exactly as the closures of the source do.       *)
(***************************************************************************)
EXTENDS Integers, Sequences, FiniteSets, TLC

VARIABLES
    status,              \* useState<ConnectionStatus>
    isHandsFree,         \* useState(false)
    config,              \* voice, language and systemInstruction, as one value
    currentStatus,       \* useState<'idle'|'listening'|'speaking'|'waking'>
    sessionRef,          \* attempt whose Session is in sessionRef.current, or NULL
    sessionPromiseRef,   \* attempt whose promise is in sessionPromiseRef.current
    inputAudioCtxRef,    \* attempt that created the AudioContext in the ref
    outputAudioCtxRef,
    nextStartTimeRef,    \* nextStartTimeRef.current
    sourcesRef,          \* the sources in sourcesRef.current
    transcriptRef,       \* transcriptRef.current: [input, output]
    transcriptions,      \* useState<Transcription[]>
    localRecognitionRef, \* SpeechRecognition in localRecognitionRef.current
    scopes,              \* the renders of App, oldest first
    attempts,            \* the invocations of startSession that passed its guard
    recs,                \* the SpeechRecognition objects created so far
    sources,             \* the AudioBufferSourceNodes started so far, in order
    decoding,            \* the handleMessage calls awaiting decodeAudioData
    stopTimers,          \* the pending timers of line 326
    interruptedSince,    \* an interruption was handled after the last source.start
    turnCompletes,       \* the turn-complete signals handled so far (history)
    exitScheduled,       \* a timer was set for the input draft as it is (history)
    lastOp               \* what the handler that ran last did (history)

vars == <<status, isHandsFree, config, currentStatus, sessionRef,
          sessionPromiseRef, inputAudioCtxRef, outputAudioCtxRef,
          nextStartTimeRef, sourcesRef, transcriptRef, transcriptions,
          localRecognitionRef, scopes, attempts, recs, sources, decoding,
          stopTimers, interruptedSince, turnCompletes, exitScheduled, lastOp>>

NULL == 0

\* Bounds of the model.
MaxScopes == 4
MaxAttempts == 2
MaxRecs == 2
NumConfigs == 2
MaxSources == 2
MaxTime == 2
MaxTimers == 2
MaxDraftLen == 5
MaxTurns == 1

ConnectionStatus == {"DISCONNECTED", "CONNECTING", "CONNECTED", "ERROR"}
VisualStatus == {"idle", "listening", "speaking", "waking"}

\* The state a handler works on, as one record.
Cur ==
    [status |-> status, isHandsFree |-> isHandsFree, config |-> config,
     currentStatus |-> currentStatus, sessionRef |-> sessionRef,
     sessionPromiseRef |-> sessionPromiseRef,
     inputAudioCtxRef |-> inputAudioCtxRef,
     outputAudioCtxRef |-> outputAudioCtxRef,
     nextStartTimeRef |-> nextStartTimeRef, sourcesRef |-> sourcesRef,
     transcriptRef |-> transcriptRef, transcriptions |-> transcriptions,
     localRecognitionRef |-> localRecognitionRef,
     scopes |-> scopes, attempts |-> attempts, recs |-> recs,
     sources |-> sources, decoding |-> decoding, stopTimers |-> stopTimers,
     interruptedSince |-> interruptedSince,
     turnCompletes |-> turnCompletes, exitScheduled |-> exitScheduled,
     redundant |-> {}, initCalled |-> FALSE, stopCalled |-> FALSE,
     skipped |-> {}, frame |-> << >>]

\* What the handler that ran last did: whether it ran stopSession and what
\* that did, the fields of a message it left unhandled, the frame it captured.
NoStop == [stopCalled |-> FALSE, statusBefore |-> "", redundant |-> {},
           initCalled |-> FALSE, skipped |-> {}, frame |-> << >>]

OpRecord(h) ==
    IF h.stopCalled
    THEN [stopCalled |-> TRUE, statusBefore |-> status,
          redundant |-> h.redundant, initCalled |-> h.initCalled,
          skipped |-> h.skipped, frame |-> h.frame]
    ELSE [NoStop EXCEPT !.skipped = h.skipped, !.frame = h.frame]

\* The attempts some callback of which can still run.
LiveAttempts(h) ==
    {k \in DOMAIN h.attempts :
        \/ h.attempts[k].pc = "getUserMedia"
        \/ h.attempts[k].chan \in {"opening", "open", "closing"}
        \/ \E i \in DOMAIN h.decoding : h.decoding[i].attempt = k}

\* The SpeechRecognition objects some handler of which can still run.
LiveRecs(h) ==
    {r \in DOMAIN h.recs : h.recs[r].state # "idle" \/ h.recs[r].restartTimer}

\* The renders whose closures can still run: the one shown, those that created
\* the callbacks of a live attempt, recognizer or timer, and those they refer to.
ScopeRoots(h) ==
    {Len(h.scopes)}
        \cup {h.attempts[k].scope : k \in LiveAttempts(h)}
        \cup {h.recs[r].scope : r \in LiveRecs(h)}
        \cup {h.stopTimers[i].stopSession : i \in DOMAIN h.stopTimers}

RECURSIVE ScopeClosure(_, _)
ScopeClosure(h, S) ==
    LET T == S \cup UNION {{h.scopes[i].startSession, h.scopes[i].stopSession,
                            h.scopes[i].initLocalRecognition} : i \in S}
    IN IF T = S THEN S ELSE ScopeClosure(h, T)

\* h with the renders R alone, renumbered in their order.
KeepScopes(h, R, live, liveRecs) ==
    LET new(i) == Cardinality({j \in R : j <= i})
        old(n) == CHOOSE i \in R : new(i) = n
    IN [h EXCEPT
          !.scopes = [n \in 1..Cardinality(R) |->
                        LET sc == h.scopes[old(n)]
                        IN [sc EXCEPT !.startSession = new(@),
                                      !.stopSession = new(@),
                                      !.initLocalRecognition = new(@)]],
          !.attempts = [k \in DOMAIN h.attempts |->
                          IF k \in live
                          THEN [h.attempts[k] EXCEPT !.scope = new(@)]
                          ELSE [h.attempts[k] EXCEPT !.scope = NULL]],
          !.recs = [r \in DOMAIN h.recs |->
                      IF r \in liveRecs
                      THEN [h.recs[r] EXCEPT !.scope = new(@)]
                      ELSE [h.recs[r] EXCEPT !.scope = NULL]],
          !.stopTimers = [i \in DOMAIN h.stopTimers |->
                            [h.stopTimers[i] EXCEPT !.stopSession = new(@)]]]

\* h without the renders no closure of which can run any more.
DropDeadScopes(h) ==
    CHOOSE g \in {KeepScopes(h, R, LiveAttempts(h), LiveRecs(h)) :
                     R \in {ScopeClosure(h, ScopeRoots(h))}} : TRUE

(***************************************************************************)
(* SpeechRecognition objects.                                              *)
(***************************************************************************)

\* recognition.stop(): a started recognizer stops listening; it may still
\* deliver a final result, and its end event follows.
RecognitionStop(h, r) ==
    IF h.recs[r].state = "running"
    THEN [h EXCEPT !.recs[r].state = "stopping"]
    ELSE h

\* recognition.start(): starts an idle recognizer; on a recognizer that has
\* not ended it throws InvalidStateError, which leaves everything as it was.
RecognitionStart(h, r) ==
    IF h.recs[r].state = "idle"
    THEN [h EXCEPT !.recs[r].state = "running"]
    ELSE h

\* initLocalRecognition as created by the render sc.
initLocalRecognition(h, sc) ==
    LET h1 == IF h.localRecognitionRef # NULL
              THEN RecognitionStop(h, h.localRecognitionRef)
              ELSE h
        r == Len(h1.recs) + 1
    IN [h1 EXCEPT !.recs = Append(@, [scope |-> sc, state |-> "running",
                                      restartTimer |-> FALSE]),
                  !.localRecognitionRef = r]

(***************************************************************************)
(* stopSession as created by the render sc.                                *)
(***************************************************************************)

\* session.close() on the channel of attempt k.
SessionClose(h, k) ==
    IF h.attempts[k].chan = "open"
    THEN [h EXCEPT !.attempts[k].chan = "closing"]
    ELSE [h EXCEPT !.redundant = @ \cup {"channel"}]

\* inputAudioCtxRef.current?.close()
CloseInputCtx(h) ==
    LET c == h.inputAudioCtxRef
    IN IF c = NULL THEN h
       ELSE IF h.attempts[c].inputCtx = "running"
            THEN [h EXCEPT !.attempts[c].inputCtx = "closed"]
            ELSE [h EXCEPT !.redundant = @ \cup {"inputAudioCtx"}]

\* outputAudioCtxRef.current?.close()
CloseOutputCtx(h) ==
    LET c == h.outputAudioCtxRef
    IN IF c = NULL THEN h
       ELSE IF h.attempts[c].outputCtx = "running"
            THEN [h EXCEPT !.attempts[c].outputCtx = "closed"]
            ELSE [h EXCEPT !.redundant = @ \cup {"outputAudioCtx"}]

\* History: the attempts still inside startSession's awaits when stopSession
\* is invoked by a handler that began in status CONNECTING.
MarkCancelled(h) ==
    [h EXCEPT !.attempts =
        [k \in DOMAIN h.attempts |->
            IF status = "CONNECTING" /\ h.attempts[k].pc \in {"getUserMedia", "connect"}
                 /\ h.attempts[k].chan \in {"none", "opening"}
            THEN [h.attempts[k] EXCEPT !.stoppedWhileConnecting = TRUE]
            ELSE h.attempts[k]]]

stopSession(h, sc) ==
    LET h0 == [MarkCancelled(h) EXCEPT !.stopCalled = TRUE]
        h1 == IF h0.sessionRef # NULL
              THEN [SessionClose(h0, h0.sessionRef) EXCEPT !.sessionRef = NULL]
              ELSE h0
        h2 == [h1 EXCEPT !.sessionPromiseRef = NULL]
        h3 == CloseOutputCtx(CloseInputCtx(h2))
        h4 == [h3 EXCEPT !.status = "DISCONNECTED", !.currentStatus = "idle"]
    IN IF h.scopes[sc].isHandsFree
       THEN initLocalRecognition([h4 EXCEPT !.initCalled = TRUE],
                                 h.scopes[sc].initLocalRecognition)
       ELSE h4

(***************************************************************************)
(* startSession as created by the render sc, up to its first await.        *)
(***************************************************************************)
startSession(h, sc) ==
    IF h.scopes[sc].status \in {"CONNECTING", "CONNECTED"}
    THEN h
    ELSE LET k == Len(h.attempts) + 1
         IN [h EXCEPT !.status = "CONNECTING",
                      !.currentStatus = "waking",
                      !.attempts = Append(@,
                          [scope |-> sc, pc |-> "getUserMedia", mic |-> "none",
                           chan |-> "none", inputCtx |-> "running",
                           outputCtx |-> "running", currentTime |-> 0,
                           capture |-> NULL,
                           config |-> h.scopes[sc].config,
                           configAtCall |-> h.config,
                           statusAtCall |-> h.status,
                           stoppedByStaleTimer |-> FALSE,
                           stoppedWhileConnecting |-> FALSE]),
                      !.inputAudioCtxRef = k,
                      !.outputAudioCtxRef = k]

(***************************************************************************)
(* A render of App, with the effect of lines 388-395.                      *)
(***************************************************************************)
Dirty(h) ==
    LET p == h.scopes[Len(h.scopes)]
    IN h.status # p.status \/ h.isHandsFree # p.isHandsFree \/ h.config # p.config

Render(h) ==
    LET n == Len(h.scopes)
        p == h.scopes[n]
        start == IF h.status # p.status \/ h.config # p.config
                 THEN n + 1 ELSE p.startSession
        stop == IF h.isHandsFree # p.isHandsFree THEN n + 1 ELSE p.stopSession
        init == IF h.isHandsFree # p.isHandsFree \/ h.status # p.status
                   \/ start # p.startSession
                THEN n + 1 ELSE p.initLocalRecognition
        h1 == [h EXCEPT !.scopes = Append(@,
                  [status |-> h.status, isHandsFree |-> h.isHandsFree,
                   config |-> h.config, startSession |-> start,
                   stopSession |-> stop, initLocalRecognition |-> init])]
        \* the cleanup of the effect of the previous render
        h2 == IF h1.localRecognitionRef # NULL
              THEN RecognitionStop(h1, h1.localRecognitionRef)
              ELSE h1
    IN IF ~Dirty(h) THEN h
       ELSE IF init = p.initLocalRecognition THEN h1
       ELSE IF h.isHandsFree /\ h.status = "DISCONNECTED"
            THEN initLocalRecognition(h2, init)
       ELSE IF ~h.isHandsFree /\ h2.localRecognitionRef # NULL
            THEN RecognitionStop(h2, h2.localRecognitionRef)
       ELSE h2

\* A handler ends: React renders the state it set before the next event is
\* handled, and the handler's result becomes the state.
Commit(h0) ==
    \E h1 \in {Render(h0)} : \E h \in {DropDeadScopes(h1)} :
       /\ Len(h.scopes) <= MaxScopes
       /\ Len(h.attempts) <= MaxAttempts
       /\ Len(h.recs) <= MaxRecs
       /\ Len(h.sources) + Len(h.decoding) <= MaxSources
       /\ Len(h.stopTimers) <= MaxTimers
       /\ Len(h.transcriptRef.input) <= MaxDraftLen
       /\ Len(h.transcriptRef.output) <= MaxDraftLen
       /\ Len(h.transcriptions) <= 2 * MaxTurns
       /\ h.turnCompletes <= MaxTurns
       /\ status' = h.status
       /\ isHandsFree' = h.isHandsFree
       /\ config' = h.config
       /\ currentStatus' = h.currentStatus
       /\ sessionRef' = h.sessionRef
       /\ sessionPromiseRef' = h.sessionPromiseRef
       /\ inputAudioCtxRef' = h.inputAudioCtxRef
       /\ outputAudioCtxRef' = h.outputAudioCtxRef
       /\ localRecognitionRef' = h.localRecognitionRef
       /\ scopes' = h.scopes
       /\ attempts' = h.attempts
       /\ recs' = h.recs
       /\ nextStartTimeRef' = h.nextStartTimeRef
       /\ sourcesRef' = h.sourcesRef
       /\ transcriptRef' = h.transcriptRef
       /\ transcriptions' = h.transcriptions
       /\ sources' = h.sources
       /\ decoding' = h.decoding
       /\ stopTimers' = h.stopTimers
       /\ interruptedSince' = h.interruptedSince
       /\ turnCompletes' = h.turnCompletes
       /\ exitScheduled' = h.exitScheduled
       /\ lastOp' = OpRecord(h)

Init ==
    /\ status = "DISCONNECTED"
    /\ isHandsFree = FALSE
    /\ config = 1
    /\ currentStatus = "idle"
    /\ sessionRef = NULL
    /\ sessionPromiseRef = NULL
    /\ inputAudioCtxRef = NULL
    /\ outputAudioCtxRef = NULL
    /\ localRecognitionRef = NULL
    /\ scopes = << [status |-> "DISCONNECTED", isHandsFree |-> FALSE, config |-> 1,
                    startSession |-> 1, stopSession |-> 1,
                    initLocalRecognition |-> 1] >>
    /\ attempts = << >>
    /\ recs = << >>
    /\ nextStartTimeRef = 0
    /\ sourcesRef = {}
    /\ transcriptRef = [input |-> << >>, output |-> << >>]
    /\ transcriptions = << >>
    /\ sources = << >>
    /\ decoding = << >>
    /\ stopTimers = << >>
    /\ interruptedSince = FALSE
    /\ turnCompletes = 0
    /\ exitScheduled = FALSE
    /\ lastOp = NoStop

\* The render the page shows.
Shown == scopes[Len(scopes)]

(***************************************************************************)
(* The page: the connect button, the hands-free button, the settings.      *)
(* A click handler's state updates are rendered before the next event.     *)
(***************************************************************************)

\* onClick of the button while it shows 'Connect EVA' (line 477).
ClickConnect ==
    /\ Shown.status \notin {"CONNECTING", "CONNECTED"}
    /\ Commit(startSession(Cur, Shown.startSession))

\* onClick of the button while it shows 'Disconnect' (line 477).
ClickDisconnect ==
    /\ Shown.status = "CONNECTED"
    /\ Commit(stopSession(Cur, Shown.stopSession))

\* onClick of the hands-free button (line 427).
ToggleHandsFree ==
    \E on \in {~Shown.isHandsFree} : Commit([Cur EXCEPT !.isHandsFree = on])

\* onVoiceChange, onLanguageChange, onSystemInstructionChange (lines 511-516).
ChangeConfig(c) ==
    /\ c # config
    /\ Commit([Cur EXCEPT !.config = c])

(***************************************************************************)
(* The rest of startSession, and the callbacks it gives to ai.live.connect.*)
(***************************************************************************)

\* getUserMedia resolves (line 218): the channel is opened (lines 222-271).
GetUserMediaResolved(k) ==
    /\ attempts[k].pc = "getUserMedia"
    /\ Commit([Cur EXCEPT !.attempts[k].mic = "live",
                          !.attempts[k].chan = "opening",
                          !.attempts[k].pc = "connect",
                          !.sessionPromiseRef = k])

\* The catch block without line 277: visualStatus is left as it is.
CatchKeepsVisual(h, k) ==
    [h EXCEPT !.attempts[k].pc = "failed",
              !.status = "ERROR"]

\* The catch block (lines 274-278).
Catch(h, k) ==
    [h EXCEPT !.attempts[k].pc = "failed",
              !.status = "ERROR",
              !.currentStatus = "idle"]

\* getUserMedia rejects.
GetUserMediaRejected(k) ==
    /\ attempts[k].pc = "getUserMedia"
    /\ Commit(Catch(Cur, k))

\* ai.live.connect rejects before its channel opened.
ConnectRejected(k) ==
    /\ attempts[k].pc = "connect"
    /\ attempts[k].chan = "opening"
    /\ Commit(Catch([Cur EXCEPT !.attempts[k].chan = "closed"], k))

\* callbacks.onopen (lines 225-248), then the promise resolves and
\* startSession stores the session (line 272).
onopen(k) ==
    /\ attempts[k].chan = "opening"
    /\ LET h1 == [Cur EXCEPT !.attempts[k].chan = "open",
                             !.status = "CONNECTED",
                             !.currentStatus = "listening"]
           h2 == IF h1.localRecognitionRef # NULL
                 THEN RecognitionStop(h1, h1.localRecognitionRef)
                 ELSE h1
           h3 == [h2 EXCEPT !.attempts[k].capture = h2.inputAudioCtxRef]
       IN Commit([h3 EXCEPT !.sessionRef = k, !.attempts[k].pc = "done"])

\* callbacks.onerror (lines 250-254); the channel then closes.
onerror(k) ==
    /\ attempts[k].chan \in {"opening", "open"}
    /\ Commit(stopSession([Cur EXCEPT !.attempts[k].chan = "closing",
                                      !.status = "ERROR"],
                          scopes[attempts[k].scope].stopSession))

\* callbacks.onclose (lines 255-258): the server closed the channel, or the
\* close that session.close() or an error began has completed.
onclose(k) ==
    /\ attempts[k].chan \in {"open", "closing"}
    /\ Commit(stopSession([Cur EXCEPT !.attempts[k].chan = "closed",
                                      !.status = "DISCONNECTED"],
                          scopes[attempts[k].scope].stopSession))

(***************************************************************************)
(* The handlers initLocalRecognition gives to a SpeechRecognition.         *)
(***************************************************************************)

\* What the recognizer heard, by the phrases its transcript contains.
Transcripts == {{"wake up", "eva"}, {"hey", "eva"}, {"hey"}, {}}

\* Line 371.
IsWakePhrase(t) == "wake up" \in t \/ ("hey" \in t /\ "eva" \in t)

\* recognition.onresult (lines 367-374).
onresult(r, t) ==
    /\ recs[r].state \in {"running", "stopping"}
    /\ Commit(IF IsWakePhrase(t)
              THEN startSession(Cur, scopes[recs[r].scope].startSession)
              ELSE Cur)

\* recognition.onerror (lines 376-378); the recognizer's end event follows.
RecognitionError(r) ==
    /\ recs[r].state = "running"
    /\ Commit([Cur EXCEPT !.recs[r].state = "stopping",
                          !.recs[r].restartTimer =
                              @ \/ scopes[recs[r].scope].isHandsFree])

\* recognition.onend (lines 380-382).
onend(r) ==
    /\ recs[r].state \in {"running", "stopping"}
    /\ LET h1 == [Cur EXCEPT !.recs[r].state = "idle"]
           sc == scopes[recs[r].scope]
       IN Commit(IF sc.isHandsFree /\ sc.status = "DISCONNECTED"
                 THEN RecognitionStart(h1, r)
                 ELSE h1)

\* The timer of line 377 fires.
RestartTimer(r) ==
    /\ recs[r].restartTimer
    /\ Commit(RecognitionStart([Cur EXCEPT !.recs[r].restartTimer = FALSE], r))

(***************************************************************************)
(* handleMessage (lines 295-352).  Text is a sequence of characters.       *)
(***************************************************************************)
Max(a, b) == IF a >= b THEN a ELSE b

\* String.prototype.toLowerCase, on the letters the inputs use in upper case.
LowerChar(c) ==
    CASE c = "G" -> "g"
      [] c = "S" -> "s"
      [] c = "B" -> "b"
      [] OTHER -> c

toLowerCase(text) == [i \in DOMAIN text |-> LowerChar(text[i])]

\* String.prototype.includes
includes(text, pat) ==
    \E i \in 1..(Len(text) - Len(pat) + 1) : SubSeq(text, i, i + Len(pat) - 1) = pat

Goodbye == <<"g", "o", "o", "d", "b", "y", "e">>
Sleep == <<"s", "l", "e", "e", "p">>
StopSessionPhrase == <<"s", "t", "o", "p", " ", "s", "e", "s", "s", "i", "o", "n">>

\* Line 325.
IsExitPhrase(lower) ==
    includes(lower, Goodbye) \/ includes(lower, Sleep) \/ includes(lower, StopSessionPhrase)

\* History: the context of attempt c is running, no source is scheduled or
\* playing on a running context and no chunk is being decoded.
Idle(h, c) ==
    /\ h.attempts[c].outputCtx = "running"
    /\ h.decoding = << >>
    /\ \A i \in DOMAIN h.sources :
          h.sources[i].state = "scheduled" =>
              h.attempts[h.sources[i].ctx].outputCtx # "running"

\* ScheduleSource without line 315: nextStartTimeRef is not advanced by the
\* buffer's duration.
ScheduleSourceNoAdvance(h, c, dur, overtook, stale) ==
    LET now == h.attempts[c].currentTime
        t == h.nextStartTimeRef
        id == Len(h.sources) + 1
    IN [h EXCEPT !.sources = Append(@,
                     [ctx |-> c, start |-> t, dur |-> dur, state |-> "scheduled",
                      clockAtStart |-> now,
                      afterInterrupt |-> h.interruptedSince,
                      overtook |-> overtook, stale |-> stale,
                      idleAtStart |-> Idle(h, c)]),
                 !.sourcesRef = @ \cup {id},
                 !.interruptedSince = FALSE]

\* source.start(nextStartTimeRef.current) and the two lines after it
\* (lines 303-316) for a decoded buffer of duration dur played on the context
\* of attempt c.
ScheduleSource(h, c, dur, overtook, stale) ==
    LET now == h.attempts[c].currentTime
        t == h.nextStartTimeRef
        id == Len(h.sources) + 1
    IN [h EXCEPT !.sources = Append(@,
                     [ctx |-> c, start |-> t, dur |-> dur, state |-> "scheduled",
                      clockAtStart |-> now,
                      afterInterrupt |-> h.interruptedSince,
                      overtook |-> overtook, stale |-> stale,
                      idleAtStart |-> Idle(h, c)]),
                 !.nextStartTimeRef = t + dur,
                 !.sourcesRef = @ \cup {id},
                 !.interruptedSince = FALSE]

\* Lines 319-328.
InputTranscription(h, k, m) ==
    IF m.input = << >> THEN h
    ELSE LET text == m.input[1]
             h1 == [h EXCEPT !.transcriptRef.input = @ \o text]
         IN IF IsExitPhrase(toLowerCase(text))
            THEN [h1 EXCEPT !.stopTimers =
                     Append(@, [stopSession |-> h.scopes[h.attempts[k].scope].stopSession,
                                attempt |-> k]),
                            !.exitScheduled = TRUE]
            ELSE h1

\* Lines 330-332.
OutputTranscription(h, m) ==
    IF m.output = << >> THEN h
    ELSE [h EXCEPT !.transcriptRef.output = @ \o m.output[1]]

\* Lines 334-344.
TurnComplete(h, m) ==
    IF ~m.turnComplete THEN h
    ELSE LET input == h.transcriptRef.input
             output == h.transcriptRef.output
             h1 == IF input # << >> \/ output # << >>
                   THEN [h EXCEPT !.transcriptions =
                           @ \o << [text |-> input, sender |-> "user"],
                                   [text |-> output, sender |-> "model"] >>]
                   ELSE h
         IN [h1 EXCEPT !.transcriptRef = [input |-> << >>, output |-> << >>],
                       !.turnCompletes = @ + 1,
                       !.exitScheduled = FALSE]

\* Lines 346-351.  stop() ends a source that has not ended; its ended event
\* follows.
Interrupted(h, m) ==
    IF ~m.interrupted THEN h
    ELSE [h EXCEPT !.sources =
                     [i \in DOMAIN h.sources |->
                        IF i \in h.sourcesRef /\ h.sources[i].state = "scheduled"
                        THEN [h.sources[i] EXCEPT !.state = "stopped"]
                        ELSE h.sources[i]],
                   !.sourcesRef = {},
                   !.nextStartTimeRef = 0,
                   !.currentStatus = "listening",
                   !.interruptedSince = TRUE,
                   !.decoding = [i \in DOMAIN h.decoding |->
                                   [h.decoding[i] EXCEPT !.stale = TRUE]]]

\* handleMessage from line 319 on.
AfterAudio(h, k, m) ==
    Interrupted(TurnComplete(OutputTranscription(InputTranscription(h, k, m), m), m), m)

\* handleMessage up to the await of line 302, or to its end when the message
\* has no audio.
handleMessage(h, k, m) ==
    IF m.audio # 0 /\ h.outputAudioCtxRef # NULL
    THEN [h EXCEPT !.currentStatus = "speaking",
                   !.nextStartTimeRef =
                       Max(@, h.attempts[h.outputAudioCtxRef].currentTime),
                   !.decoding = Append(@, [attempt |-> k, ctx |-> h.outputAudioCtxRef,
                                           message |-> m, stale |-> FALSE])]
    ELSE AfterAudio(h, k, m)

\* The messages the remote service sends.  An audio chunk is given by the
\* duration of the buffer it decodes to, or is malformed and does not decode.
NoAudio == 0
Durations == {1, 2}
Malformed == 3
InputDeltas == {<<"S", "l", "e", "e", "p">>, <<"s", "l", "e">>, <<"e", "p">>}
OutputDeltas == {<<"o", "k", "a", "y">>}

TextMessages ==
    {m \in [audio : {NoAudio},
            input : {<< >>} \cup {<<d>> : d \in InputDeltas},
            output : {<< >>} \cup {<<d>> : d \in OutputDeltas},
            turnComplete : BOOLEAN, interrupted : {FALSE}] :
        m.input # << >> \/ m.output # << >> \/ m.turnComplete}

AudioMessages ==
    {m \in [audio : {NoAudio} \cup Durations, input : {<< >>}, output : {<< >>},
            turnComplete : {FALSE}, interrupted : BOOLEAN] :
        m.audio # NoAudio \/ m.interrupted}

MalformedMessages ==
    [audio : {Malformed},
     input : {<< >>} \cup {<<d>> : d \in InputDeltas},
     output : {<< >>} \cup {<<d>> : d \in OutputDeltas},
     turnComplete : BOOLEAN, interrupted : BOOLEAN]

\* callbacks.onmessage (line 249) on the open channel of attempt k.
onmessage(k, m) ==
    /\ attempts[k].chan = "open"
    /\ Commit(handleMessage(Cur, k, m))

\* Which of the awaited decodeAudioData calls may complete next: any of them
\* whose chunk decodes.
DecodeCompletes(i) == i \in DOMAIN decoding /\ decoding[i].message.audio \in Durations

\* Which of them may fail next: any of them whose chunk is malformed.
DecodeFails(i) == i \in DOMAIN decoding /\ decoding[i].message.audio = Malformed

\* The fields a message has beside its audio.
OtherFields(m) ==
    {f \in {"inputTranscription", "outputTranscription", "turnComplete", "interrupted"} :
        \/ f = "inputTranscription" /\ m.input # << >>
        \/ f = "outputTranscription" /\ m.output # << >>
        \/ f = "turnComplete" /\ m.turnComplete
        \/ f = "interrupted" /\ m.interrupted}

Remove(seq, i) == SubSeq(seq, 1, i - 1) \o SubSeq(seq, i + 1, Len(seq))

\* decodeAudioData resolves and handleMessage goes on from line 303.
handleMessageResume(i) ==
    /\ DecodeCompletes(i)
    /\ LET d == decoding[i]
       IN Commit(AfterAudio(
                    ScheduleSource([Cur EXCEPT !.decoding = Remove(@, i)],
                                   d.ctx, d.message.audio, i > 1, d.stale),
                    d.attempt, d.message))

\* decode or decodeAudioData throws (line 302): handleMessage ends there, its
\* promise rejected.
handleMessageThrows(i) ==
    /\ DecodeFails(i)
    /\ Commit([Cur EXCEPT !.decoding = Remove(@, i),
                          !.skipped = OtherFields(decoding[i].message)])

\* When a started source has played its buffer: a start time that has passed
\* starts it at once.
EndTime(src) == Max(src.start, src.clockAtStart) + src.dur

\* source.onended (lines 307-312): the source played to its end, or was stopped.
onended(i) ==
    /\ attempts[sources[i].ctx].outputCtx = "running"
    /\ \/ sources[i].state = "stopped"
       \/ /\ sources[i].state = "scheduled"
          /\ attempts[sources[i].ctx].currentTime >= EndTime(sources[i])
    /\ LET rest == sourcesRef \ {i}
       IN Commit([Cur EXCEPT !.sources[i].state = "ended",
                             !.sourcesRef = rest,
                             !.currentStatus = IF rest = {} THEN "listening" ELSE @])

\* The clock of the output AudioContext of attempt k advances.
Tick(k) ==
    /\ attempts[k].outputCtx = "running"
    /\ attempts[k].currentTime < MaxTime
    /\ Commit([Cur EXCEPT !.attempts[k].currentTime = @ + 1])

\* The attempts a stopSession run now takes something from: the one whose
\* session sessionRef holds, those whose running audio context a ref holds.
Torn(h) ==
    {k \in DOMAIN h.attempts :
        \/ k = h.sessionRef
        \/ k = h.inputAudioCtxRef /\ h.attempts[k].inputCtx = "running"
        \/ k = h.outputAudioCtxRef /\ h.attempts[k].outputCtx = "running"}

\* The timer of line 326 fires.  History: the attempts it takes something
\* from that are not the one whose message set it.
StopTimerFires(i) ==
    \E t \in {stopTimers[i]} :
        Commit(stopSession(
                 [Cur EXCEPT !.stopTimers = Remove(@, i),
                             !.attempts = [k \in DOMAIN attempts |->
                                 IF k \in Torn(Cur) /\ k # t.attempt
                                 THEN [attempts[k] EXCEPT !.stoppedByStaleTimer = TRUE]
                                 ELSE attempts[k]]],
                 t.stopSession))

\* The mean absolute amplitudes of the captured frames, in hundredths, and
\* the threshold of line 236.
Volumes == {1, 2}
Threshold == 1

\* Lines 236-241 without the test for speaking.
FrameVisualNoPriority(prev, volume) ==
    IF volume > Threshold THEN "listening" ELSE prev

\* Lines 236-241: the visualStatus after a frame.
FrameVisual(prev, volume) ==
    IF volume > Threshold
    THEN (IF prev = "speaking" THEN "speaking" ELSE "listening")
    ELSE (IF prev = "listening" THEN "listening" ELSE prev)

\* processor.onaudioprocess (lines 233-245) for a frame of the given volume:
\* the frame is encoded and given to sendRealtimeInput of the attempt's session.
onaudioprocess(k, volume) ==
    /\ attempts[k].capture # NULL
    /\ attempts[attempts[k].capture].inputCtx = "running"
    /\ Commit([Cur EXCEPT !.currentStatus = FrameVisual(@, volume),
                          !.frame = << [attempt |-> k, volume |-> volume,
                                        sentTo |-> k,
                                        visualBefore |-> currentStatus] >>])

\* Every handler of the program.
Next ==
    \/ ClickConnect
    \/ ClickDisconnect
    \/ ToggleHandsFree
    \/ \E c \in 1..NumConfigs : ChangeConfig(c)
    \/ \E k \in DOMAIN attempts : GetUserMediaResolved(k)
    \/ \E k \in DOMAIN attempts : GetUserMediaRejected(k)
    \/ \E k \in DOMAIN attempts : ConnectRejected(k)
    \/ \E k \in DOMAIN attempts : onopen(k)
    \/ \E k \in DOMAIN attempts : onerror(k)
    \/ \E k \in DOMAIN attempts : onclose(k)
    \/ \E r \in DOMAIN recs, t \in Transcripts : onresult(r, t)
    \/ \E r \in DOMAIN recs : RecognitionError(r)
    \/ \E r \in DOMAIN recs : onend(r)
    \/ \E r \in DOMAIN recs : RestartTimer(r)
    \/ \E k \in DOMAIN attempts,
          m \in TextMessages \cup AudioMessages \cup MalformedMessages : onmessage(k, m)
    \/ \E i \in DOMAIN decoding : handleMessageResume(i)
    \/ \E i \in DOMAIN decoding : handleMessageThrows(i)
    \/ \E i \in DOMAIN sources : onended(i)
    \/ \E k \in DOMAIN attempts : Tick(k)
    \/ \E i \in DOMAIN stopTimers : StopTimerFires(i)
    \/ \E k \in DOMAIN attempts, volume \in Volumes : onaudioprocess(k, volume)

Spec == Init /\ [][Next]_vars

\* The session lifecycle: the page, the wake recognizer, the channel and the
\* capture pipeline, with a remote service that sends no message.
NextSession ==
    \/ ClickConnect
    \/ ClickDisconnect
    \/ ToggleHandsFree
    \/ \E k \in DOMAIN attempts : GetUserMediaResolved(k)
    \/ \E k \in DOMAIN attempts : GetUserMediaRejected(k)
    \/ \E k \in DOMAIN attempts : ConnectRejected(k)
    \/ \E k \in DOMAIN attempts : onopen(k)
    \/ \E k \in DOMAIN attempts : onerror(k)
    \/ \E k \in DOMAIN attempts : onclose(k)
    \/ \E r \in DOMAIN recs, t \in Transcripts : onresult(r, t)
    \/ \E r \in DOMAIN recs : RecognitionError(r)
    \/ \E r \in DOMAIN recs : onend(r)
    \/ \E r \in DOMAIN recs : RestartTimer(r)
    \/ \E k \in DOMAIN attempts, volume \in Volumes : onaudioprocess(k, volume)

SpecSession == Init /\ [][NextSession]_vars

\* The playback path of one session: the remote service sends audio and
\* interruptions.
NextPlayback ==
    \/ ClickConnect
    \/ \E k \in DOMAIN attempts : GetUserMediaResolved(k)
    \/ \E k \in DOMAIN attempts : onopen(k)
    \/ \E k \in DOMAIN attempts, m \in AudioMessages : onmessage(k, m)
    \/ \E i \in DOMAIN decoding : handleMessageResume(i)
    \/ \E i \in DOMAIN sources : onended(i)
    \/ \E k \in DOMAIN attempts : Tick(k)

SpecPlayback == Init /\ [][NextPlayback]_vars

\* The session lifecycle with the steps the runtime is sure to take: a channel
\* that is closing closes, a recognizer that is stopping ends, a set timer
\* fires.  What the user and the remote service do is left to them.
FairSession ==
    /\ SpecSession
    /\ WF_vars(\E k \in DOMAIN attempts : attempts[k].chan = "closing" /\ onclose(k))
    /\ WF_vars(\E r \in DOMAIN recs : recs[r].state = "stopping" /\ onend(r))
    /\ WF_vars(\E r \in DOMAIN recs : RestartTimer(r))

\* The transcript path: sessions started and ended by the button or the
\* remote service, which sends transcript deltas and turn-complete signals.
NextTranscript ==
    \/ ClickConnect
    \/ ClickDisconnect
    \/ \E k \in DOMAIN attempts : GetUserMediaResolved(k)
    \/ \E k \in DOMAIN attempts : onopen(k)
    \/ \E k \in DOMAIN attempts : onclose(k)
    \/ \E k \in DOMAIN attempts, m \in TextMessages : onmessage(k, m)
    \/ \E i \in DOMAIN stopTimers : StopTimerFires(i)

SpecTranscript == Init /\ [][NextTranscript]_vars

\* The settings path: the user edits the configuration while sessions are
\* started by the button and by the wake recognizer.
NextConfig ==
    \/ ClickConnect
    \/ ClickDisconnect
    \/ ToggleHandsFree
    \/ \E c \in 1..NumConfigs : ChangeConfig(c)
    \/ \E k \in DOMAIN attempts : GetUserMediaResolved(k)
    \/ \E k \in DOMAIN attempts : onopen(k)
    \/ \E k \in DOMAIN attempts : onclose(k)
    \/ \E r \in DOMAIN recs, t \in Transcripts : onresult(r, t)
    \/ \E r \in DOMAIN recs : onend(r)

SpecConfig == Init /\ [][NextConfig]_vars

\* The messages that carry an audio chunk and nothing else.
AudioChunks == {m \in AudioMessages : ~m.interrupted}

\* Playback over several sessions: the remote service sends audio chunks,
\* the user ends a session and starts the next.
NextReplay ==
    \/ ClickConnect
    \/ ClickDisconnect
    \/ \E k \in DOMAIN attempts : GetUserMediaResolved(k)
    \/ \E k \in DOMAIN attempts : onopen(k)
    \/ \E k \in DOMAIN attempts : onclose(k)
    \/ \E k \in DOMAIN attempts, m \in AudioChunks : onmessage(k, m)
    \/ \E i \in DOMAIN decoding : handleMessageResume(i)
    \/ \E i \in DOMAIN sources : onended(i)
    \/ \E k \in DOMAIN attempts : Tick(k)

SpecReplay == Init /\ [][NextReplay]_vars

\* Playback with the steps the runtime is sure to take: a decode completes,
\* the clock of a running context advances, a source that has played its
\* buffer fires its ended event.
FairReplay ==
    /\ SpecReplay
    /\ WF_vars(\E i \in DOMAIN decoding : handleMessageResume(i))
    /\ WF_vars(\E i \in DOMAIN sources : onended(i))
    /\ WF_vars(\E k \in DOMAIN attempts : Tick(k))

\* The playback path of one session with chunks that do not decode.
NextDecode ==
    \/ ClickConnect
    \/ \E k \in DOMAIN attempts : GetUserMediaResolved(k)
    \/ \E k \in DOMAIN attempts : onopen(k)
    \/ \E k \in DOMAIN attempts, m \in AudioChunks \cup MalformedMessages : onmessage(k, m)
    \/ \E i \in DOMAIN decoding : handleMessageResume(i)
    \/ \E i \in DOMAIN decoding : handleMessageThrows(i)
    \/ \E i \in DOMAIN sources : onended(i)
    \/ \E k \in DOMAIN attempts : Tick(k)

SpecDecode == Init /\ [][NextDecode]_vars

\* The face of one session: its audio, interruptions and captured frames
\* set visualStatus.
NextVisual ==
    \/ ClickConnect
    \/ \E k \in DOMAIN attempts : GetUserMediaResolved(k)
    \/ \E k \in DOMAIN attempts : onopen(k)
    \/ \E k \in DOMAIN attempts, m \in AudioMessages : onmessage(k, m)
    \/ \E i \in DOMAIN decoding : handleMessageResume(i)
    \/ \E i \in DOMAIN sources : onended(i)
    \/ \E k \in DOMAIN attempts : Tick(k)
    \/ \E k \in DOMAIN attempts, volume \in Volumes : onaudioprocess(k, volume)

SpecVisual == Init /\ [][NextVisual]_vars

\* The audio chunks of the shortest duration.
ShortChunks == {m \in AudioChunks : m.audio = 1}

\* Playback while the wake recognizer listens: sessions started by the button
\* and by wake results, the remote service sends short audio chunks.
NextWakePlayback ==
    \/ ClickConnect
    \/ ToggleHandsFree
    \/ \E k \in DOMAIN attempts : GetUserMediaResolved(k)
    \/ \E k \in DOMAIN attempts : onopen(k)
    \/ \E r \in DOMAIN recs, t \in Transcripts : onresult(r, t)
    \/ \E k \in DOMAIN attempts, m \in ShortChunks : onmessage(k, m)
    \/ \E i \in DOMAIN decoding : handleMessageResume(i)
    \/ \E i \in DOMAIN sources : onended(i)
    \/ \E k \in DOMAIN attempts : Tick(k)

SpecWakePlayback == Init /\ [][NextWakePlayback]_vars

(***************************************************************************)
(* The claims.                                                             *)
(***************************************************************************)

\* The attempts whose channel is open or being opened.
OpenChannels == {k \in DOMAIN attempts : attempts[k].chan \in {"opening", "open"}}

\* The attempts whose capture pipeline delivers frames.
ActiveCaptures ==
    {k \in DOMAIN attempts :
        /\ attempts[k].capture # NULL
        /\ attempts[attempts[k].capture].inputCtx = "running"}

\* The attempts one of whose audio contexts is not closed.
LiveContexts ==
    {k \in DOMAIN attempts :
        attempts[k].inputCtx = "running" \/ attempts[k].outputCtx = "running"}

\* C1: a call of startSession made while status is CONNECTING or CONNECTED,
\* by the button or by a wake result, leads to no channel open attempt.
C1_NoOpenWhileActive ==
    \A k \in DOMAIN attempts :
        attempts[k].chan # "none" =>
            attempts[k].statusAtCall \notin {"CONNECTING", "CONNECTED"}

\* C2: at most one session exists: never more than one channel open or being
\* opened, one capture pipeline, one pair of audio contexts alive.
C2_AtMostOneSession ==
    /\ Cardinality(OpenChannels) <= 1
    /\ Cardinality(ActiveCaptures) <= 1
    /\ Cardinality(LiveContexts) <= 1

C4_InterruptStopsAll ==
    \A i \in DOMAIN sources : sources[i].stale => sources[i].state # "scheduled"

\* C5: the first source started after an interruption is started at the
\* output clock's time at that moment.
C5_AfterInterruptStartsNow ==
    \A i \in DOMAIN sources :
        sources[i].afterInterrupt => sources[i].start = sources[i].clockAtStart

\* C6: after a handler that began in status CONNECTED ran stopSession, the
\* channel is closed, no capture pipeline delivers frames, no microphone
\* stream is live, every audio context is closed, status is DISCONNECTED and
\* visualStatus idle.
C6_StopReleasesAll ==
    (lastOp.stopCalled /\ lastOp.statusBefore = "CONNECTED") =>
        /\ OpenChannels = {}
        /\ ActiveCaptures = {}
        /\ \A k \in DOMAIN attempts : attempts[k].mic # "live"
        /\ LiveContexts = {}
        /\ status = "DISCONNECTED"
        /\ currentStatus = "idle"

\* C7: a connect attempt during which stopSession ran while status was
\* CONNECTING has no channel open or being opened and no capture pipeline.
C7_StopCancelsConnect ==
    \A k \in DOMAIN attempts :
        attempts[k].stoppedWhileConnecting =>
            /\ attempts[k].chan \notin {"opening", "open"}
            /\ attempts[k].capture = NULL

\* C8: stopSession run by a handler that began in status DISCONNECTED closes
\* or stops nothing that was already released and restarts nothing.
C8_StopIdempotent ==
    (lastOp.stopCalled /\ lastOp.statusBefore = "DISCONNECTED") =>
        /\ lastOp.redundant = {}
        /\ ~lastOp.initCalled

\* C9: whenever status is ERROR it later becomes DISCONNECTED with no user
\* action.
C9_ErrorLeadsToDisconnected == (status = "ERROR") ~> (status = "DISCONNECTED")

\* C10: no wake recognizer is running while status is CONNECTING or CONNECTED.
C10_RecognizerOffDuringSession ==
    status \in {"CONNECTING", "CONNECTED"} =>
        \A r \in DOMAIN recs : recs[r].state # "running"

\* C11: every turn-complete signal appends two records, so the history is
\* always twice as long as the number of turn-complete signals handled.
C11_TwoRecordsPerTurn == Len(transcriptions) = 2 * turnCompletes

\* C12: at most one timer of a delayed stopSession is pending.
C12_OneDelayedStop == Len(stopTimers) <= 1

\* C13: the timer set by a message of one session never runs stopSession on
\* the session, or on the audio contexts, of another attempt.
C13_NoStaleStop ==
    \A k \in DOMAIN attempts : ~attempts[k].stoppedByStaleTimer

\* C20: whenever the lower-cased input draft contains an exit phrase, a
\* delayed stop has been scheduled for it.
C20_SplitPhraseDetected ==
    IsExitPhrase(toLowerCase(transcriptRef.input)) => exitScheduled

\* C14: status changes only from DISCONNECTED to CONNECTING, from CONNECTING
\* to CONNECTED, from CONNECTING or CONNECTED to ERROR or DISCONNECTED, and
\* from ERROR to DISCONNECTED.
C14_StatusTransitions ==
    [][status' # status =>
          <<status, status'>> \in
              {<<"DISCONNECTED", "CONNECTING">>, <<"CONNECTING", "CONNECTED">>,
               <<"CONNECTING", "ERROR">>, <<"CONNECTED", "ERROR">>,
               <<"CONNECTING", "DISCONNECTED">>, <<"CONNECTED", "DISCONNECTED">>,
               <<"ERROR", "DISCONNECTED">>}]_vars

\* C15: while hands-free is off no wake recognizer is running.
C15_RecognizerOffWhenHandsFreeOff ==
    ~isHandsFree => \A r \in DOMAIN recs : recs[r].state # "running"

\* C16: when hands-free is on and no session is connecting or connected, a
\* wake recognizer is running or will be, unless hands-free is turned off or
\* a session is started first.
C16_RecognizerReturns ==
    (isHandsFree /\ status \in {"DISCONNECTED", "ERROR"})
        ~> (\/ \E r \in DOMAIN recs : recs[r].state = "running"
            \/ ~isHandsFree
            \/ status \in {"CONNECTING", "CONNECTED"})

\* C19: the step in which getUserMedia or ai.live.connect rejects sets status
\* ERROR and visualStatus idle and starts no new attempt; the attempt that
\* failed has no channel open or being opened, no session and no capture.
C19_FailedConnect ==
    [][\A k \in DOMAIN attempts :
          attempts'[k].pc = "failed" =>
              /\ attempts[k].pc # "failed" =>
                    /\ status' = "ERROR"
                    /\ currentStatus' = "idle"
                    /\ Len(attempts') = Len(attempts)
              /\ attempts'[k].chan \notin {"opening", "open"}
              /\ attempts'[k].capture = NULL
              /\ sessionRef' # k]_vars

\* An attempt has just failed after its channel began to open.
C19_Witness ==
    \E k \in DOMAIN attempts :
        /\ attempts[k].pc = "failed"
        /\ attempts[k].mic = "live"
        /\ attempts[k].chan = "closed"
        /\ status = "ERROR"
        /\ currentStatus = "idle"

\* C17: every attempt connects with the voice, language and system prompt
\* that were current when its startSession was called.
C17_ConfigAtStart ==
    \A k \in DOMAIN attempts : attempts[k].config = attempts[k].configAtCall

\* C18: once every source of the connected session has ended and no chunk
\* of it is being decoded, visualStatus becomes listening (unless the session
\* ends first).
C18_DrainedListening ==
    (/\ status = "CONNECTED"
     /\ sessionRef # NULL
     /\ decoding = << >>
     /\ \E i \in DOMAIN sources : sources[i].ctx = sessionRef
     /\ \A i \in DOMAIN sources :
            sources[i].ctx = sessionRef => sources[i].state = "ended")
        ~> (currentStatus = "listening" \/ status # "CONNECTED")

\* C21: the audio of a message is scheduled before the audio of any message
\* that arrived after it: no source is started while the chunk of an earlier
\* message is still being decoded.
C21_ArrivalOrder == \A i \in DOMAIN sources : ~sources[i].overtook

\* C22: a source started on a running context while nothing is scheduled,
\* playing or being decoded is not started at a time after the output clock's current time.
C22_IdleStartsNow ==
    \A i \in DOMAIN sources :
        sources[i].idleAtStart => sources[i].start <= sources[i].clockAtStart

\* C24: a chunk that fails to decode leaves no other field of its message
\* unhandled.
C24_MalformedAbsorbed == lastOp.skipped = {}

\* C23: a step in which a source fires its ended event leaves status as it
\* is, and changes visualStatus only from speaking to listening and only in
\* status CONNECTED; a step in which a source ends or is started in status
\* DISCONNECTED leaves visualStatus idle.
C23_DrainedSignal ==
    [][/\ (\E i \in DOMAIN sources :
              sources[i].state # "ended" /\ sources'[i].state = "ended") =>
            /\ status' = status
            /\ currentStatus' # currentStatus =>
                  /\ status = "CONNECTED"
                  /\ currentStatus = "speaking"
                  /\ currentStatus' = "listening"
       /\ (/\ status = "DISCONNECTED"
           /\ currentStatus = "idle"
           /\ status' = "DISCONNECTED"
           /\ sources' # sources) => currentStatus' = "idle"]_vars

\* C25: a frame captured by the connected session is given to that session
\* whatever its volume; above the threshold it sets visualStatus to listening
\* unless it was speaking, which is kept, and otherwise leaves it as it was.
C25_FrameRule ==
    \A n \in DOMAIN lastOp.frame :
        LET f == lastOp.frame[n]
        IN (status = "CONNECTED" /\ f.attempt = sessionRef) =>
              /\ f.sentTo = sessionRef
              /\ f.volume > Threshold /\ f.visualBefore = "speaking" =>
                    currentStatus = "speaking"
              /\ f.volume > Threshold /\ f.visualBefore # "speaking" =>
                    currentStatus = "listening"
              /\ f.volume <= Threshold => currentStatus = f.visualBefore

\* The connected session captured a frame above the threshold while
\* visualStatus was speaking.
C25_Witness ==
    /\ status = "CONNECTED"
    /\ \E n \in DOMAIN lastOp.frame :
          /\ lastOp.frame[n].attempt = sessionRef
          /\ lastOp.frame[n].volume > Threshold
          /\ lastOp.frame[n].visualBefore = "speaking"
    /\ currentStatus = "speaking"

\* C26: while status is CONNECTED and a chunk of the session accepted since
\* the last interruption is scheduled, playing or being decoded, visualStatus
\* is speaking.
C26_SpeakingWhileAudio ==
    (/\ status = "CONNECTED"
     /\ sessionRef # NULL
     /\ \/ \E i \in DOMAIN sources :
              /\ sources[i].ctx = sessionRef
              /\ sources[i].state = "scheduled"
              /\ ~sources[i].stale
        \/ \E i \in DOMAIN decoding :
              /\ decoding[i].attempt = sessionRef
              /\ ~decoding[i].stale)
        => currentStatus = "speaking"

====
